---- MODULE Spec2Model ----
(***************************************************************************)
(* A model of src/main.py: the watchdog event handler ImageHandler, its    *)
(* hidden-file filter and process_image, the compare-and-keep-smaller      *)
(* re-encoder.                                                             *)
(*                                                                         *)
(* File names are sequences of tokens; the token "." is the dot character  *)
(* and every other token is a run of characters without a dot, so that     *)
(* basename tests (startswith('.'), 'Screenshot' in filename) and          *)
(* os.path.splitext are computed on the name as Python computes them.      *)
(* A file's bytes are abstracted to what the code observes of them: their  *)
(* size, whether PIL can decode them, and who wrote them.                  *)
(*                                                                         *)
(* process_image is split at the points where it reads the source file, so *)
(* that the producer of the source directory can rewrite a file while its  *)
(* event is being handled.  The codec (PIL) is opaque: the size of an      *)
(* encoding, and whether decode or encode raises, are free choices.        *)
(***************************************************************************)
EXTENDS Integers, Sequences, FiniteSets, TLC

\* ------------------------------------------------------------ bounds
\* Small file sizes are 0..MaxSmall bytes; the two sizes around 1 MiB are added.
MaxSmall == 1
\* How many inputs a run takes from outside: writes of the producer to the
\* source directory and events the observer delivers.
MaxInputs == 3

\* ------------------------------------------------- program constants
MiB == 1048576
JpegCap == 85
MaxQuality == 100

\* Python's None (a path, an image or an argument that is absent).
None == [none |-> TRUE]

\* ------------------------------------------------------------- names
Dot == "."

Hidden(filename) == Len(filename) > 0 /\ filename[1] = Dot

HasScreenshot(filename) == \E i \in 1..Len(filename) : filename[i] = "Screenshot"

\* f".{filename}"
HiddenName(filename) == <<Dot>> \o filename

Max(S) == CHOOSE x \in S : \A y \in S : y <= x

Min2(a, b) == IF a <= b THEN a ELSE b

\* os.path.splitext on a basename: split at the last dot, unless only dots
\* precede it (leading dots belong to the name).
SplitExt(filename) ==
    LET dots == {i \in 1..Len(filename) : filename[i] = Dot}
    IN  IF dots = {} THEN <<filename, <<>> >>
        ELSE LET d == Max(dots)
             IN  IF \E i \in 1..(d - 1) : filename[i] # Dot
                 THEN <<SubSeq(filename, 1, d - 1), SubSeq(filename, d, Len(filename))>>
                 ELSE <<filename, <<>> >>

\* str.lower() on the tokens the model uses.
LowerTok(t) ==
    CASE t = "JPG" -> "jpg"
      [] t = "Screenshot" -> "screenshot"
      [] OTHER -> t

Lower(s) == [i \in 1..Len(s) |-> LowerTok(s[i])]

WebpExt == <<Dot, "webp">>
JpegExts == {<<Dot, "jpg">>, <<Dot, "jpeg">>}
TempSuffix == <<Dot, "temp">>

\* The files the producer may put into SOURCE_DIR.
Names ==
    { <<"Screenshot", Dot, "JPG">>,
      <<Dot, "Screenshot", Dot, "JPG">>,
      <<"a", Dot, "webp">>,
      <<Dot, "a", Dot, "webp">> }

\* The directories events may be about.
DirNames == { <<"dir">>, <<Dot, "dir">> }

SourcePath(filename) == [dir |-> "SOURCE_DIR", name |-> filename]
CompressedPath(filename) == [dir |-> "COMPRESSED_DIR", name |-> filename]
Basename(path) == path.name
Dirname(path) == path.dir
Join(dir, filename) == [dir |-> dir, name |-> filename]

\* ----------------------------------------------------------- contents
NoFile == [kind |-> "absent"]
Partial == [kind |-> "partial", size |-> 0]

Sizes == (0..MaxSmall) \cup {MiB, MiB + 1}

\* What the producer writes: bytes PIL can decode (never empty) or cannot.
\* format is what PIL detects from the bytes ("" when it detects none).
SourceFiles ==
    {[kind |-> "file", decodable |-> TRUE, format |-> "PNG", size |-> s] :
        s \in Sizes \ {0}}
    \cup {[kind |-> "file", decodable |-> FALSE, format |-> "", size |-> s] :
        s \in 0..MaxSmall}

\* What the producer puts under a name.  The program only ever asks whether a
\* hidden file exists, so one content stands for all of them.
Writable(n) ==
    IF Hidden(n)
    THEN {NoFile, [kind |-> "file", decodable |-> FALSE, format |-> "", size |-> 0]}
    ELSE SourceFiles \cup {NoFile}

\* The sizes an encoding may come out at.
EncodedSizes == Sizes \ {0}

Exists(c) == c.kind # "absent"
Decodable(c) == c.kind = "file" /\ c.decodable

\* ------------------------------------------------------------- state
VARIABLES
    CONVERT_TO_WEBP,      \* module-level configuration, read once at import
    LOSSLESS,
    COMPRESSION_QUALITY,
    source,               \* SOURCE_DIR: file name -> contents
    compressed,           \* COMPRESSED_DIR: file name -> contents
    alive,                \* the observer thread that calls the handler runs
    pc,                   \* where the handler is; "idle": waiting for an event;
                          \* "return": the handler is returning to the observer
    call,                 \* the event just dispatched and what the filter was given
    frame,                \* the locals of process_image
    log,                  \* the outcome this process_image call logged
    obs,                  \* history: what this call found and read
    inputs                \* producer writes and events delivered so far

vars == <<CONVERT_TO_WEBP, LOSSLESS, COMPRESSION_QUALITY, source, compressed,
          alive, pc, call, frame, log, obs, inputs>>

config == <<CONVERT_TO_WEBP, LOSSLESS, COMPRESSION_QUALITY>>

\* The configured qualities the model runs with.
Qualities == {JpegCap, MaxQuality}

\* Every name process_image can derive in COMPRESSED_DIR.
OutputNames ==
    LET outs == UNION {{SplitExt(n)[1] \o WebpExt, SplitExt(n)[1] \o SplitExt(n)[2]} :
                        n \in {m \in Names : ~Hidden(m)}}
    IN  outs \cup {o \o TempSuffix : o \in outs}

NoCall ==
    [handler |-> "none", is_directory |-> FALSE, filtered |-> FALSE,
     file_path |-> None, previous_path |-> None, candidate_exists |-> FALSE,
     result |-> None]

NoFrame ==
    [source_path |-> None, ext |-> <<>>, output_path |-> None,
     temp_output_path |-> None, original_size |-> 0, img |-> None,
     save_args |-> None, temp_size |-> 0, exc |-> "none"]

NoObs ==
    [entry |-> [n \in OutputNames |-> NoFile], encoded |-> NoFile,
     copied |-> NoFile, checked |-> [kind |-> "unchecked"], branch |-> "none",
     rewritten |-> FALSE]

Init ==
    /\ CONVERT_TO_WEBP \in BOOLEAN
    /\ LOSSLESS \in BOOLEAN
    /\ COMPRESSION_QUALITY \in Qualities
    /\ source = [n \in Names |-> NoFile]
    /\ compressed = [n \in OutputNames |-> NoFile]
    /\ alive = TRUE
    /\ pc = "idle"
    /\ call = NoCall
    /\ frame = NoFrame
    /\ log = "none"
    /\ obs = NoObs
    /\ inputs = 0

\* ---------------------------------------------------------- producer
\* Whoever fills SOURCE_DIR creates, rewrites or removes a file at any moment,
\* also while an event is being handled ("return" is the instant the handler
\* returns, not a span of time).  obs.rewritten records a write to the file
\* being processed.
ProducerWrite(n, c) ==
    /\ inputs < MaxInputs
    /\ pc # "return"
    /\ source[n] # c
    /\ source' = [source EXCEPT ![n] = c]
    /\ inputs' = inputs + 1
    /\ obs' = IF frame.source_path = SourcePath(n)
              THEN [obs EXCEPT !.rewritten = TRUE]
              ELSE obs
    /\ UNCHANGED <<config, compressed, alive, pc, call, frame, log>>

\* ------------------------------------------------------------ filter
\* A filter that admits every path (no hidden-file check).
ShouldProcessFileUnfiltered(file_path, previous_path) == file_path

\* _should_process_file: the path to process, or None.
\* (`if previous_path:` is false for None.)
ShouldProcessFile(file_path, previous_path) ==
    LET filename == Basename(file_path)
    IN  IF /\ previous_path # None
           /\ Hidden(Basename(previous_path))
           /\ ~Hidden(filename)
        THEN file_path
        ELSE IF ~Hidden(filename) THEN file_path ELSE None

\* on_modified probing for the hidden counterpart of every name.
ModifiedPreviousPathAnyName(src_path, fs) ==
    IF HiddenName(Basename(src_path)) \in DOMAIN fs
       /\ Exists(fs[HiddenName(Basename(src_path))])
    THEN Join(Dirname(src_path), HiddenName(Basename(src_path)))
    ELSE None

\* on_modified's choice of previous_path.
ModifiedPreviousPath(src_path, fs) ==
    LET filename == Basename(src_path)
        hidden_path == Join(Dirname(src_path), HiddenName(filename))
    IN  IF ~Hidden(filename) /\ HasScreenshot(filename)
        THEN IF HiddenName(filename) \in DOMAIN fs /\ Exists(fs[HiddenName(filename)])
             THEN hidden_path
             ELSE None
        ELSE None

\* ---------------------------------------------------------- handlers
\* The handler hands file_path to process_image: a new frame, and the state of
\* COMPRESSED_DIR on entry is remembered.
EnterProcessImage(file_path) ==
    /\ pc' = "is_image"
    /\ frame' = [NoFrame EXCEPT !.source_path = file_path]
    /\ obs' = [NoObs EXCEPT !.entry = compressed]
    /\ log' = "none"

\* `if event.is_directory: return`, then the filter, then
\* `if file_to_process: self.process_image(file_to_process)`.
Dispatch(handler, is_directory, file_path, previous_path, candidate_exists) ==
    /\ alive
    /\ pc = "idle"
    /\ inputs < MaxInputs
    /\ IF is_directory
       THEN /\ call' = [NoCall EXCEPT !.handler = handler, !.is_directory = TRUE,
                                      !.file_path = file_path]
            /\ pc' = "return"
            /\ UNCHANGED <<frame, obs, log>>
       ELSE LET file_to_process == ShouldProcessFile(file_path, previous_path)
            IN  /\ call' = [handler |-> handler, is_directory |-> FALSE,
                            filtered |-> TRUE, file_path |-> file_path,
                            previous_path |-> previous_path,
                            candidate_exists |-> candidate_exists,
                            result |-> file_to_process]
                /\ IF file_to_process # None
                   THEN EnterProcessImage(file_to_process)
                   ELSE /\ pc' = "return"
                        /\ UNCHANGED <<frame, obs, log>>
    /\ inputs' = inputs + 1
    /\ UNCHANGED <<config, source, compressed, alive>>

on_created(src, is_directory) ==
    Dispatch("on_created", is_directory, SourcePath(src), None, FALSE)

\* call.candidate_exists records, for every name, whether '.' + basename
\* exists when the event is handled.
on_modified(src, is_directory) ==
    Dispatch("on_modified", is_directory, SourcePath(src),
             ModifiedPreviousPath(SourcePath(src), source),
             HiddenName(src) \in DOMAIN source /\ Exists(source[HiddenName(src)]))

on_moved(src, dest, is_directory) ==
    Dispatch("on_moved", is_directory, SourcePath(dest), SourcePath(src), FALSE)

\* ------------------------------------------------------ process_image
\* An exception raised inside the try block.
Raise(exc) ==
    /\ pc' = "except"
    /\ frame' = [frame EXCEPT !.exc = exc]

\* The exception classes the model raises; all derive from Exception.
ExceptionClasses == {"OSError", "UnidentifiedImageError", "ValueError", "ZeroDivisionError"}

\* `except OSError`: too narrow a clause.
CatchesOSErrorOnly(exc) == exc \in {"OSError", "UnidentifiedImageError"}

\* `except Exception` (process_image and _is_image alike).
Catches(exc) == exc \in ExceptionClasses

\* An _is_image that accepts every file.
IsImageResultAlways(c) == TRUE

\* _is_image: Image.open succeeded.
IsImageResult(c) == Decodable(c)

IsImage ==
    /\ pc = "is_image"
    /\ LET c == source[Basename(frame.source_path)]
       IN  /\ obs' = [obs EXCEPT !.checked = c]
           /\ IF IsImageResult(c)
              THEN /\ pc' = "getsize"
                   /\ UNCHANGED log
              ELSE /\ pc' = "return"
                   /\ log' = "not_image"
    /\ call' = NoCall
    /\ UNCHANGED <<config, source, compressed, alive, frame, inputs>>

\* An output extension that is always '.webp'.
OutputExtAlwaysWebp(ext) == WebpExt

OutputExt(ext) == IF CONVERT_TO_WEBP THEN WebpExt ELSE ext

OutputPath(source_path) ==
    LET filename == Basename(source_path)
        name == SplitExt(filename)[1]
        ext == SplitExt(filename)[2]
    IN  Join("COMPRESSED_DIR", name \o OutputExt(ext))

\* Lines 113-120: the output path, then os.path.getsize(source_path).
GetSize ==
    /\ pc = "getsize"
    /\ LET c == source[Basename(frame.source_path)]
           derived == [frame EXCEPT
                         !.ext = SplitExt(Basename(frame.source_path))[2],
                         !.output_path = OutputPath(frame.source_path)]
       IN  IF Exists(c)
           THEN /\ frame' = [derived EXCEPT !.original_size = c.size]
                /\ pc' = "open"
           ELSE /\ frame' = [derived EXCEPT !.exc = "OSError"]
                /\ pc' = "except"
    /\ UNCHANGED <<config, source, compressed, alive, call, log, obs, inputs>>

\* Image.open: the format PIL detects.
ImageOpen(c) == [format |-> c.format]

\* Image.convert returns a new image, and an image made by the library has
\* no format.
Convert(img) == [format |-> ""]

\* Lines 122-131: open and convert; the decoder may raise on any file.
OpenConvert ==
    /\ pc = "open"
    /\ LET c == source[Basename(frame.source_path)]
       IN  IF Decodable(c)
           THEN \/ /\ frame' = [frame EXCEPT !.img = Convert(ImageOpen(c))]
                   /\ pc' = "save"
                \/ Raise("OSError")
           ELSE Raise("UnidentifiedImageError")
    /\ UNCHANGED <<config, source, compressed, alive, call, log, obs, inputs>>

\* The cap applied from 1 MiB on instead of above it.
JpegQualityCapAtMiB(quality, original_size) ==
    IF original_size >= MiB THEN Min2(quality, JpegCap) ELSE quality

\* Lines 151-154: the quality a kept JPEG is saved with.
JpegQuality(quality, original_size) ==
    IF original_size > MiB THEN Min2(quality, JpegCap) ELSE quality

\* Lines 137-165: the format and keyword arguments of the img.save call.
SaveArgs(convert, lossless, quality, ext, original_size, img) ==
    IF convert
    THEN IF lossless
         THEN [format |-> "WEBP", lossless |-> TRUE]
         ELSE [format |-> "WEBP", quality |-> quality]
    ELSE IF Lower(ext) \in JpegExts
         THEN [format |-> "JPEG", quality |-> JpegQuality(quality, original_size),
               optimize |-> TRUE, progressive |-> TRUE]
         ELSE LET original_format == IF img.format # "" THEN img.format ELSE "PNG"
              IN  IF lossless
                  THEN [format |-> original_format, quality |-> MaxQuality,
                        optimize |-> TRUE]
                  ELSE [format |-> original_format, quality |-> quality,
                        optimize |-> TRUE]

TempOutputPath(output_path) == Join(Dirname(output_path), Basename(output_path) \o TempSuffix)

\* Lines 133-168: img.save to the temp path, then os.path.getsize of it.  The
\* encoder decides the size.  When it raises, PIL removes the file if this
\* call created it; a temp file that was there before stays, as it was or
\* truncated.
Save ==
    /\ pc = "save"
    /\ LET temp == TempOutputPath(frame.output_path)
           args == SaveArgs(CONVERT_TO_WEBP, LOSSLESS, COMPRESSION_QUALITY,
                            frame.ext, frame.original_size, frame.img)
           started == [frame EXCEPT !.temp_output_path = temp, !.save_args = args]
       IN  \/ \E size \in EncodedSizes :
                LET bytes == [kind |-> "encoded", args |-> args, size |-> size]
                IN  /\ compressed' = [compressed EXCEPT ![Basename(temp)] = bytes]
                    /\ frame' = [started EXCEPT !.temp_size = size]
                    /\ obs' = [obs EXCEPT !.encoded = bytes]
                    /\ pc' = "finalize"
           \/ \E left \in {compressed[Basename(temp)]} \cup
                          (IF Exists(compressed[Basename(temp)]) THEN {Partial} ELSE {}) :
                /\ compressed' = [compressed EXCEPT ![Basename(temp)] = left]
                /\ frame' = [started EXCEPT !.exc = "ValueError"]
                /\ pc' = "except"
                /\ UNCHANGED obs
    /\ UNCHANGED <<config, source, alive, call, log, inputs>>

\* The simple variant: the encoding always replaces the output.
KeepOriginalNever(temp_size, original_size) == FALSE

\* The comparison without its equality case.
KeepOriginalStrict(temp_size, original_size) == temp_size > original_size

\* Line 169: the temp file is not smaller than the original.
KeepOriginal(temp_size, original_size) == temp_size >= original_size

\* Lines 169-175: compare sizes and keep the smaller file.  os.remove,
\* shutil.copy2 and os.rename may each raise; copy2 raises when the source is
\* no longer a file, and a copy that fails midway leaves a truncated output.
Finalize ==
    /\ pc = "finalize"
    /\ LET temp == Basename(frame.temp_output_path)
           out == Basename(frame.output_path)
           c == source[Basename(frame.source_path)]
       IN  IF KeepOriginal(frame.temp_size, frame.original_size)
           THEN \/ /\ Raise("OSError")                       \* os.remove raises
                   /\ UNCHANGED <<compressed, obs>>
                \/ /\ c.kind = "file"
                   /\ compressed' = [compressed EXCEPT ![temp] = NoFile, ![out] = c]
                   /\ obs' = [obs EXCEPT !.copied = c, !.branch = "copy"]
                   /\ pc' = "report"
                   /\ UNCHANGED frame
                \/ \E left \in {compressed[out]} \cup
                               (IF c.kind = "file" THEN {Partial} ELSE {}) :
                     /\ compressed' = [compressed EXCEPT ![temp] = NoFile, ![out] = left]
                     /\ Raise("OSError")                     \* shutil.copy2 raises
                     /\ UNCHANGED obs
           ELSE \/ /\ compressed' = [compressed EXCEPT ![temp] = NoFile,
                                                       ![out] = compressed[temp]]
                   /\ obs' = [obs EXCEPT !.branch = "rename"]
                   /\ pc' = "report"
                   /\ UNCHANGED frame
                \/ /\ Raise("OSError")                       \* os.rename raises
                   /\ UNCHANGED <<compressed, obs>>
    /\ UNCHANGED <<config, source, alive, call, log, inputs>>

\* Lines 177-187: the statistics; the percentage divides by original_size.
Report ==
    /\ pc = "report"
    /\ IF Exists(compressed[Basename(frame.output_path)]) /\ frame.original_size = 0
       THEN /\ Raise("ZeroDivisionError")
            /\ UNCHANGED log
       ELSE /\ pc' = "return"
            /\ log' = "completed"
            /\ UNCHANGED frame
    /\ UNCHANGED <<config, source, compressed, alive, call, obs, inputs>>

\* Lines 189-194: the except clause logs the error and process_image returns;
\* an exception it does not catch leaves the handler and ends the thread that
\* delivers the events.
Except ==
    /\ pc = "except"
    /\ IF Catches(frame.exc)
       THEN /\ pc' = "return"
            /\ log' = "error"
            /\ UNCHANGED alive
       ELSE /\ pc' = "dead"
            /\ alive' = FALSE
            /\ UNCHANGED log
    /\ UNCHANGED <<config, source, compressed, call, frame, obs, inputs>>

\* The handler returns to the observer, which waits for the next event.
Return ==
    /\ pc = "return"
    /\ pc' = "idle"
    /\ call' = NoCall
    /\ frame' = NoFrame
    /\ obs' = NoObs
    /\ log' = "none"
    /\ UNCHANGED <<config, source, compressed, alive, inputs>>

\* ------------------------------------------------------ specification
Next ==
    \/ \E n \in Names : \E c \in Writable(n) : ProducerWrite(n, c)
    \/ \E n \in Names : on_created(n, FALSE)
    \/ \E n \in DirNames : on_created(n, TRUE)
    \/ \E n \in Names : on_modified(n, FALSE)
    \/ \E n \in DirNames : on_modified(n, TRUE)
    \/ \E n \in Names : \E m \in Names \ {n} : on_moved(n, m, FALSE)
    \/ \E n \in DirNames : \E m \in DirNames \ {n} : on_moved(n, m, TRUE)
    \/ IsImage
    \/ GetSize
    \/ OpenConvert
    \/ Save
    \/ Finalize
    \/ Report
    \/ Except
    \/ Return

Spec == Init /\ [][Next]_vars

\* ------------------------------------------------------------- claims
\* process_image was called for this event and has returned.
Returned == pc = "return" /\ frame.source_path # None

\* process_image got through the compare-and-keep-smaller step.
Finalized == pc \in {"report", "except", "return"} /\ obs.branch # "none"

SourceNow == source[Basename(frame.source_path)]
OutputNow == compressed[Basename(frame.output_path)]

\* C1, as stated: whenever process_image has returned and a file exists at the
\* derived output path, that file is no larger than the source file (also
\* with an older output, also when the source was rewritten meanwhile).
C1_OutputNeverLargerThanSource ==
    (Returned /\ Exists(SourceNow)
        /\ Exists(compressed[Basename(OutputPath(frame.source_path))]))
    => compressed[Basename(OutputPath(frame.source_path))].size <= SourceNow.size

\* C1, amended: once a call is through the finalize step, the output is either
\* the encoding, no larger than original_size, or the source's bytes as
\* copy2 read them; and it is no larger than the source whenever the source
\* was not rewritten during the call.
C1_FinalizedOutputNotLarger ==
    Finalized =>
        /\ obs.branch = "rename" => OutputNow.size <= frame.original_size
        /\ obs.branch = "copy" => OutputNow = obs.copied
        /\ ~obs.rewritten => OutputNow.size <= SourceNow.size

\* An encoding smaller than the source replaced an older, larger output.
C1_Witness ==
    /\ Returned
    /\ obs.branch = "rename"
    /\ ~obs.rewritten
    /\ Exists(obs.entry[Basename(frame.output_path)])
    /\ OutputNow.size < obs.entry[Basename(frame.output_path)].size
    /\ OutputNow.size < SourceNow.size

\* C2: through the finalize step, temp_size >= original_size leaves a copy of
\* the source at the output path, temp_size < original_size leaves the
\* encoded bytes there; the temp file is gone and an older output is replaced.
C2_Finalize ==
    Finalized =>
        /\ ~Exists(compressed[Basename(frame.temp_output_path)])
        /\ frame.temp_size >= frame.original_size =>
              /\ OutputNow = obs.copied
              /\ obs.copied.kind = "file"
              /\ ~obs.rewritten => OutputNow = SourceNow
        /\ frame.temp_size < frame.original_size =>
              /\ OutputNow = obs.encoded
              /\ OutputNow.kind = "encoded"
              /\ OutputNow.size = frame.temp_size

\* An encoding exactly as large as the source: the source was copied over an
\* older output.
C2_Witness ==
    /\ Returned
    /\ obs.branch = "copy"
    /\ frame.temp_size = frame.original_size
    /\ Exists(obs.entry[Basename(frame.output_path)])
    /\ obs.entry[Basename(frame.output_path)] # OutputNow
    /\ OutputNow = SourceNow

\* C3: the filter returns None for every hidden basename, whatever the event,
\* and process_image is not called; it returns the path, and process_image is
\* called with it, when previous_path is hidden and the path is not.
C3_Filter ==
    call.filtered =>
        /\ Hidden(Basename(call.file_path)) =>
              /\ call.result = None
              /\ pc = "return"
              /\ frame = NoFrame
        /\ (/\ call.previous_path # None
            /\ Hidden(Basename(call.previous_path))
            /\ ~Hidden(Basename(call.file_path))) =>
              /\ call.result = call.file_path
              /\ pc = "is_image"
              /\ frame.source_path = call.file_path

\* A rename from a hidden name to its visible name is processed.
C3_Witness ==
    /\ call.handler = "on_moved"
    /\ call.previous_path = SourcePath(<<Dot, "Screenshot", Dot, "JPG">>)
    /\ call.file_path = SourcePath(<<"Screenshot", Dot, "JPG">>)
    /\ pc = "is_image"

\* C4: a file PIL cannot decode is logged as not an image and the call
\* returns at once: no path derived, COMPRESSED_DIR as it was on entry.
C4_NotAnImage ==
    (obs.checked.kind # "unchecked" /\ ~Decodable(obs.checked)) =>
        /\ pc = "return"
        /\ log = "not_image"
        /\ frame.output_path = None
        /\ frame.temp_output_path = None
        /\ compressed = obs.entry

\* A file that is not an image was admitted and skipped.
C4_Witness ==
    /\ Returned
    /\ obs.checked.kind = "file"
    /\ ~obs.checked.decodable
    /\ log = "not_image"

\* C5, as stated: the output path's extension is '.webp' exactly when
\* CONVERT_TO_WEBP is set.
C5_WebpIffConvert ==
    frame.output_path # None =>
        (SplitExt(Basename(frame.output_path))[2] = WebpExt <=> CONVERT_TO_WEBP)

\* C5, amended: the output path is COMPRESSED_DIR / (stem + '.webp') when
\* CONVERT_TO_WEBP is set and COMPRESSED_DIR / (stem + source extension)
\* otherwise, so its extension is '.webp' exactly when CONVERT_TO_WEBP is set
\* or the source's own extension is '.webp'.
C5_OutputPath ==
    frame.output_path # None =>
        LET src == SplitExt(Basename(frame.source_path))
            out == SplitExt(Basename(frame.output_path))
        IN  /\ Dirname(frame.output_path) = "COMPRESSED_DIR"
            /\ out[1] = src[1]
            /\ out[2] = (IF CONVERT_TO_WEBP THEN WebpExt ELSE src[2])
            /\ (out[2] = WebpExt <=> (CONVERT_TO_WEBP \/ src[2] = WebpExt))

\* A JPEG kept in its format keeps its extension.
C5_Witness ==
    /\ ~CONVERT_TO_WEBP
    /\ frame.source_path = SourcePath(<<"Screenshot", Dot, "JPG">>)
    /\ frame.output_path = CompressedPath(<<"Screenshot", Dot, "JPG">>)

\* C6: no exception raised while a file is processed leaves process_image:
\* the except clause catches it and the handler returns, the observer stays
\* alive for the next event, every file the filter admits is handed to
\* process_image, and a call starts only when an event is delivered.
C6_FailureIsNotFatal ==
    /\ [](alive /\ pc # "dead")
    /\ []((call.filtered /\ call.result # None) =>
            (pc = "is_image" /\ frame.source_path = call.result))
    /\ [][/\ pc = "except" => pc' \in {"except", "return"}
          /\ pc = "return" => pc' = "idle"
          /\ (pc = "idle" /\ pc' # "idle") =>
                (call'.handler # "none" /\ inputs' = inputs + 1)]_vars

\* After a call that failed and left a truncated file behind, the next
\* event's file is handed to process_image.
C6_Witness ==
    /\ alive
    /\ pc = "is_image"
    /\ \E n \in OutputNames : compressed[n] = Partial

\* C7, as stated: with LOSSLESS set, the format and options of the save call
\* are the same for every COMPRESSION_QUALITY.
C7_LosslessIgnoresQuality ==
    (LOSSLESS /\ frame.save_args # None) =>
        \A q \in 1..MaxQuality :
            SaveArgs(CONVERT_TO_WEBP, LOSSLESS, q, frame.ext,
                     frame.original_size, frame.img) = frame.save_args

\* C8: a JPEG kept in its format (extension .jpg or .jpeg in any case) is
\* saved as JPEG, optimized and progressive, with quality
\* min(COMPRESSION_QUALITY, 85) when the original is larger than 1 MiB and
\* COMPRESSION_QUALITY otherwise; so for every quality in 1..100 (evaluated
\* where the save call was just made).
C8_JpegQualityCap ==
    (frame.save_args # None /\ ~CONVERT_TO_WEBP /\ Lower(frame.ext) \in JpegExts) =>
        /\ frame.save_args.format = "JPEG"
        /\ frame.save_args.optimize
        /\ frame.save_args.progressive
        /\ frame.save_args.quality =
              (IF frame.original_size > 1048576 /\ COMPRESSION_QUALITY > 85
               THEN 85 ELSE COMPRESSION_QUALITY)
        /\ pc \in {"finalize", "except"} =>
              \A q \in 1..100 :
                  SaveArgs(FALSE, LOSSLESS, q, frame.ext, frame.original_size,
                           frame.img).quality =
                      (IF frame.original_size > 1048576 /\ q > 85 THEN 85 ELSE q)

\* A JPEG of more than 1 MiB, configured quality 100, saved with quality 85.
C8_Witness ==
    /\ ~CONVERT_TO_WEBP
    /\ frame.ext = <<Dot, "JPG">>
    /\ frame.original_size = MiB + 1
    /\ COMPRESSION_QUALITY = MaxQuality
    /\ frame.save_args # None
    /\ frame.save_args.quality = JpegCap

\* C9, as stated: for every Modified event on a file, the hidden candidate is
\* passed as previous_path exactly when it exists; directory events never
\* reach the filter.
C9_ProbeForEveryName ==
    /\ call.is_directory => ~call.filtered
    /\ (call.handler = "on_modified" /\ ~call.is_directory) =>
          /\ call.filtered
          /\ call.previous_path =
                (IF call.candidate_exists
                 THEN Join(Dirname(call.file_path), HiddenName(Basename(call.file_path)))
                 ELSE None)

\* C9, amended: for a Modified event on a file whose basename does not start
\* with '.' and contains 'Screenshot', the hidden candidate is passed as
\* previous_path exactly when it exists; for every other name previous_path
\* is None; directory events never reach the filter.
C9_ProbeForScreenshots ==
    /\ call.is_directory => (~call.filtered /\ pc = "return" /\ frame = NoFrame)
    /\ (call.handler = "on_modified" /\ ~call.is_directory) =>
          /\ call.filtered
          /\ call.previous_path =
                (IF /\ ~Hidden(Basename(call.file_path))
                    /\ HasScreenshot(Basename(call.file_path))
                    /\ call.candidate_exists
                 THEN Join(Dirname(call.file_path), HiddenName(Basename(call.file_path)))
                 ELSE None)

\* A screenshot is modified while its hidden counterpart exists.
C9_Witness ==
    /\ call.handler = "on_modified"
    /\ call.file_path = SourcePath(<<"Screenshot", Dot, "JPG">>)
    /\ call.candidate_exists
    /\ call.previous_path = SourcePath(<<Dot, "Screenshot", Dot, "JPG">>)

\* C10, as stated: when process_image has returned, however it ended, no
\* '<output path>.temp' file exists in COMPRESSED_DIR.
C10_NoTempFileLeft ==
    Returned =>
        \A n \in OutputNames :
            (Len(n) >= 2 /\ SubSeq(n, Len(n) - 1, Len(n)) = TempSuffix)
                => ~Exists(compressed[n])

====
